---- MODULE Spec2Model ----
(***************************************************************************)
(* Bot lifecycle and supervision engine of the hosting control plane:      *)
(* BotManager (server/services/bot-manager.ts), its RADAR analyzer and the *)
(* child processes it supervises.  Persisted writes (storage.updateBot,    *)
(* storage.createBotLog) take effect in the order they are issued; every   *)
(* `await` of the source is a point where other handlers may run.          *)
(***************************************************************************)
EXTENDS Integers, Sequences, FiniteSets, TLC

\* ------------------------------------------------------------- bounds
MaxChildren == 2
MaxReqs == 2
MaxCalls == 2
\* concurrent creation requests of one user, and the rows at which the model stops
MaxCreators == 3
MaxOwned == 4
\* files per upload and lines per file given to a function examined on its own
MaxFiles == 2
MaxLines == 2
MaxPhrases == 3
\* files of a bot whose main file is chosen
MaxEntryFiles == 3

Children == 1..MaxChildren
Reqs == 1..MaxReqs
Creators == 1..MaxCreators
Bots == {"b1"}

\* ---------------------------------------------------- program constants
MEMORY_MAX_DEFAULT == 128
CPU_QUOTA_DEFAULT == 50
\* JavaScript null in a numeric field: processId of a bot that is not running,
\* `code` of an 'exit' event when the child was ended by a signal
Null == -1
\* no ChildProcess
NoChild == 0
\* routes.ts 234: parseInt(process.env.MAX_BOTS_PER_USER || '1')
MAX_BOTS_PER_USER == 1

\* ------------------------------------------------------------ helpers
Includes(seq, tok) == \E i \in 1..Len(seq) : seq[i] = tok

IsSpace(tok) == tok \in {" ", "\n"}

RECURSIVE TrimStart(_)
TrimStart(seq) ==
  IF seq # <<>> /\ IsSpace(Head(seq)) THEN TrimStart(Tail(seq)) ELSE seq

RECURSIVE TrimEnd(_)
TrimEnd(seq) ==
  IF seq # <<>> /\ IsSpace(seq[Len(seq)])
    THEN TrimEnd(SubSeq(seq, 1, Len(seq) - 1))
    ELSE seq

\* String.prototype.trim on a message held as a sequence of tokens
Trim(seq) == TrimEnd(TrimStart(seq))

RECURSIVE Join(_, _)
Join(seqs, sep) ==
  IF seqs = <<>> THEN <<>>
  ELSE IF Len(seqs) = 1 THEN seqs[1]
  ELSE seqs[1] \o <<sep>> \o Join(Tail(seqs), sep)

\* ------------------------------------------------------- RADAR (static)
\* Each pattern is the list of its alternatives; a file's `content` is the
\* set of alternatives its lower-cased text matches.
suspiciousPatterns ==
  << <<"mining", "miner", "crypto", "bitcoin", "ethereum", "monero", "xmr", "btc", "eth">>,
     <<"hashrate", "difficulty", "pool", "stratum">>,
     <<"gpu", "cuda", "opencl", "amd", "nvidia">>,
     <<"ddos", "flood", "spam", "attack", "exploit">>,
     <<"proxy", "vpn", "tor", "onion">>,
     <<"botnet", "zombie", "malware">>,
     <<"infinite", "while(true)", "for(;;)">>,
     <<"fork", "spawn.*spawn", "exec.*exec">>,
     <<"memory.*allocation", "malloc.*malloc">> >>

obfuscationIndicators == << <<"eval(">>, <<"exec(">>, <<"\\x41">>, <<"\\u0041">> >>

PatternTest(pattern, content) == \E i \in 1..Len(pattern) : pattern[i] \in content

FileReasons(file) ==
  LET hits == SelectSeq(suspiciousPatterns, LAMBDA p : PatternTest(p, file.content))
      obf  == SelectSeq(obfuscationIndicators, LAMBDA p : PatternTest(p, file.content))
  IN  [i \in 1..Len(hits) |->
         <<"Suspicious pattern detected in ", file.filename.name, ": ", hits[i][1]>>]
      \o (IF file.lines > 10000
            THEN << <<"Large file detected: ", file.filename.name>> >>
            ELSE <<>>)
      \o [i \in 1..Len(obf) |->
            <<"Potential code obfuscation in ", file.filename.name>>]

FileScore(file) ==
  LET hits == SelectSeq(suspiciousPatterns, LAMBDA p : PatternTest(p, file.content))
      obf  == SelectSeq(obfuscationIndicators, LAMBDA p : PatternTest(p, file.content))
  IN  10 * Len(hits) + (IF file.lines > 10000 THEN 5 ELSE 0) + 15 * Len(obf)

RECURSIVE SumScores(_)
SumScores(files) ==
  IF files = <<>> THEN 0 ELSE FileScore(Head(files)) + SumScores(Tail(files))

RECURSIVE AllReasons(_)
AllReasons(files) ==
  IF files = <<>> THEN <<>> ELSE FileReasons(Head(files)) \o AllReasons(Tail(files))

\* a variant of analyzeCode whose verdict is `suspicious` from a total of 20
analyzeCodeFrom20(files) ==
  [isSuspicious |-> SumScores(files) >= 20,
   reasons      |-> AllReasons(files),
   riskScore    |-> SumScores(files)]

analyzeCode(files) ==
  [isSuspicious |-> SumScores(files) > 20,
   reasons      |-> AllReasons(files),
   riskScore    |-> SumScores(files)]

\* ------------------------------------------------------ RADAR (runtime)
\* stats.memory is in bytes, stats.cpu in tenths of a percent
MiB == 1024 * 1024

\* a variant of monitorResourceUsage for which reaching a limit is a breach
monitorResourceUsageAtLimit(stats) ==
  LET reasons ==
        (IF stats.memory >= MEMORY_MAX_DEFAULT * MiB
           THEN << <<"Memory usage exceeded limit: ">> >> ELSE <<>>)
        \o (IF stats.cpu >= CPU_QUOTA_DEFAULT * 10
              THEN << <<"CPU usage exceeded limit: ">> >> ELSE <<>>)
  IN  [isAbusive |-> Len(reasons) > 0, reasons |-> reasons]

monitorResourceUsage(stats) ==
  LET memoryMB == stats.memory \div MiB
      reasons  ==
        (IF stats.memory > MEMORY_MAX_DEFAULT * MiB
           THEN << <<"Memory usage exceeded limit: ", ToString(memoryMB), "MB > ",
                     ToString(MEMORY_MAX_DEFAULT), "MB">> >>
           ELSE <<>>)
        \o (IF stats.cpu > CPU_QUOTA_DEFAULT * 10
              THEN << <<"CPU usage exceeded limit: ", ToString(stats.cpu \div 10), "% > ",
                        ToString(CPU_QUOTA_DEFAULT), "%">> >>
              ELSE <<>>)
  IN  [isAbusive |-> Len(reasons) > 0, reasons |-> reasons]

\* Math.round(stats.memory / 1024 / 1024) + "MB"
FormatMemory(stats) == ToString((2 * stats.memory + MiB) \div (2 * MiB)) \o "MB"
\* stats.cpu.toFixed(1) + "%"
FormatCpu(stats) == ToString(stats.cpu \div 10) \o "." \o ToString(stats.cpu % 10) \o "%"

\* ------------------------------------------------------------- state
VARIABLES
  cfg,        \* persisted Bot configuration and BotFiles: token, language, mainFile, files
  bots,       \* persisted Bot runtime fields: status, processId, memoryUsage, cpuUsage
  logs,       \* persisted BotLogRecords
  processes,  \* BotManager.processes: Map<botId, ChildProcess>
  workspace,  \* bot ids whose workspace directory exists on disk
  child,      \* every ChildProcess ever spawned, with its OS process and pending events
  sampler,    \* the setInterval task startMonitoring launched after each spawn
  req,        \* calls of startBot / stopBot / restartBot in progress
  host,       \* the host: is the runtime binary installed, is the disk writable,
              \* do the package tools work, which storage is configured
  calls,      \* number of calls made so far
  deleted,    \* <<bot id, "bot">> / <<bot id, "files">>: rows deleted from the store
  ws,         \* the owner's registered socket and what was sent on it
  wsClients,  \* routes.ts wsClients: Map<userId, WebSocket>
  sockets,    \* every WebSocket the server accepted: its user, readyState, messages
  owned,      \* number of bot rows of the user (storage.getBotsByUserId)
  creator,    \* POST /api/bots requests of the user in progress
  probe,      \* the arguments of a function of the supervisor examined on its own
  result      \* what that function returned or wrote

\* the state next to the engine
net == <<wsClients, sockets>>
side == <<owned, creator, probe, result, net>>

vars == <<cfg, bots, logs, processes, workspace, child, sampler, req, host, calls, deleted, ws, side>>

\* ------------------------------------------------------ bot fixtures
\* What a bot's program does when it is run: the chunks it may print, whether
\* it ignores SIGTERM, the codes it may exit with by itself, and the resource
\* usage the OS may report for it (bytes, tenths of a percent).
Quiet == [memory |-> 50 * MiB, cpu |-> 100]
Hungry == [memory |-> 200 * MiB, cpu |-> 100]
Busy == [memory |-> 50 * MiB, cpu |-> 900]
\* exactly at both limits
AtLimit == [memory |-> MEMORY_MAX_DEFAULT * MiB, cpu |-> CPU_QUOTA_DEFAULT * 10]

ProgramNames == {"ready", "envdump", "badtoken", "crash", "stubborn", "hog"}

Program(name) ==
  [out   |-> CASE name \in {"ready", "stubborn", "hog"} -> {"ready"}
               [] name = "envdump" -> {"env"}
               [] OTHER -> {},
   err   |-> CASE name = "badtoken" -> {"tokenfailure"}
               [] name = "crash" -> {"traceback"}
               [] OTHER -> {},
   ign   |-> name = "stubborn",
   exits |-> CASE name \in {"ready", "envdump"} -> {0}
               [] name \in {"badtoken", "crash"} -> {1}
               [] OTHER -> {},
   usage |-> IF name = "hog" THEN {Quiet, Hungry, Busy, AtLimit} ELSE {Quiet}]

PyFile(name, content, run) ==
  [filename |-> [name |-> name, lower |-> name, ext |-> ".py"],
   content |-> content, lines |-> 3, run |-> run]

BenignFiles(run) == << PyFile("bot.py", {"import discord"}, run) >>
\* "# start mining bitcoin with gpu / import mining, hashrate"
MinerFiles == << PyFile("miner.py", {"mining", "bitcoin", "gpu", "hashrate"}, "ready") >>

BotConfigs ==
  { [token |-> "T0K3N", language |-> "python", mainFile |-> "", files |-> BenignFiles(run)] :
      run \in ProgramNames }
  \cup
  { [token |-> "T0K3N", language |-> "python", mainFile |-> "", files |-> MinerFiles],
    [token |-> "",      language |-> "python", mainFile |-> "", files |-> BenignFiles("ready")],
    [token |-> "T0K3N", language |-> "python", mainFile |-> "", files |-> <<>>],
    [token |-> "T0K3N", language |-> "ruby",   mainFile |-> "", files |-> BenignFiles("ready")] }

Hosts == { [runtime |-> TRUE,  disk |-> TRUE,  pip |-> TRUE, db |-> "pg"],
           [runtime |-> FALSE, disk |-> TRUE,  pip |-> TRUE, db |-> "pg"],
           [runtime |-> TRUE,  disk |-> FALSE, pip |-> TRUE, db |-> "pg"] }
\* hosts on which every package-tool command fails (exits non-zero, cannot be
\* spawned or runs into the timeout)
HostsWithoutPip == { [runtime |-> TRUE,  disk |-> TRUE, pip |-> FALSE, db |-> "pg"],
                     [runtime |-> FALSE, disk |-> TRUE, pip |-> FALSE, db |-> "pg"] }

\* ------------------------------------------------------- child output
ReadyLine == <<"Logged in as", " ", "Bot#0001", "\n">>
\* a program that prints its environment
EnvDump(c) == <<"DISCORD_TOKEN=", child[c].env.DISCORD_TOKEN, "\n">>
TokenFailure == <<"discord.errors.", "LoginFailure", ": ", "Improper token", " has been passed.", "\n">>
Traceback == <<"Traceback (most recent call last)", "\n">>

ChunkData(c, kind) ==
  CASE kind = "ready" -> ReadyLine
    [] kind = "env" -> EnvDump(c)
    [] kind = "tokenfailure" -> TokenFailure
    [] kind = "traceback" -> Traceback

\* the chunks the program of child c may write
Chunks(c) ==
  { [fd |-> "stdout", data |-> ChunkData(c, k)] : k \in Program(child[c].prog).out }
  \cup { [fd |-> "stderr", data |-> ChunkData(c, k)] : k \in Program(child[c].prog).err }

\* ---------------------------------------------------------- storage
\* storage.updateBot(botId, patch): a partial update of the bot row
updateBot(b, patch) ==
  IF <<b, "bot">> \in deleted THEN bots
  ELSE [bots EXCEPT ![b] = [f \in DOMAIN bots[b] |->
                              IF f \in DOMAIN patch THEN patch[f] ELSE bots[b][f]]]

\* storage.createBotLog(log): with PostgresStorage the insert of a record whose
\* bot row is gone violates the foreign key bot_logs.bot_id and stores nothing
createBotLog(log) ==
  IF host.db = "pg" /\ <<log.botId, "bot">> \in deleted THEN logs ELSE logs \cup {log}

ResetPatch(status) ==
  [status |-> status, processId |-> Null, memoryUsage |-> "0MB", cpuUsage |-> "0%"]

\* BotManager.logBotOutput: the record createBotLog is given
LogRecord(b, type, message) == [botId |-> b, type |-> type, message |-> Trim(message)]

\* Map operations on BotManager.processes
MapSet(m, k, v) == [x \in (DOMAIN m) \cup {k} |-> IF x = k THEN v ELSE m[x]]
MapDelete(m, k) == [x \in (DOMAIN m) \ {k} |-> m[x]]

\* ------------------------------------------------------------- init
NoRes == [success |-> FALSE, message |-> <<>>]
\* `wrote`: the statuses this call has written, each with the socket's count
\* of status writes at that moment (0 while no socket is open)
IdleReq == [op |-> "none", bot |-> "", pc |-> "idle", child |-> NoChild, res |-> NoRes,
            wrote |-> {}]
\* wsClients has no socket of the owner.  For an open socket: the messages
\* sent on it, for each of them the count at which the status it announces was
\* written (0 if the call wrote no such status), the count of status writes
\* that calls have made while it is open, and whether it was opened before
\* the first call
NoProbe == [fn |-> "none"]
NoResult == [st |-> "none"]
IdleCreator == [pc |-> "idle", seen |-> 0]
NoSocket == [open |-> FALSE, sent |-> <<>>, stamps |-> <<>>, clock |-> 0, had |-> {}]
Unborn == [bot |-> "", st |-> "unborn", prog |-> "", code |-> 0, pipe |-> <<>>,
           env |-> [DISCORD_TOKEN |-> "", BOT_ID |-> ""], sig |-> "none"]
NoStats == [memory |-> 0, cpu |-> 0]
NoSampler == [st |-> "off", bot |-> "", proc |-> NoChild, stats |-> NoStats]

\* the state after construction, for bots and a host drawn from the given sets
\* (the function examined on its own, if any, is chosen by the specification)
InitOn(configs, hosts) ==
  /\ cfg \in [Bots -> configs]
  /\ host \in hosts
  /\ calls = 0
  /\ bots = [b \in Bots |-> [status |-> "stopped", processId |-> Null,
                             memoryUsage |-> "0MB", cpuUsage |-> "0%",
                             lastStarted |-> FALSE]]
  /\ logs = {}
  /\ processes = [b \in {} |-> NoChild]
  /\ workspace = {}
  /\ child = [c \in Children |-> Unborn]
  /\ sampler = [c \in Children |-> NoSampler]
  /\ req = [r \in Reqs |-> IdleReq]
  /\ deleted = {}
  /\ ws = NoSocket
  /\ wsClients = << >>
  /\ sockets = << >>
  /\ owned = 0
  /\ creator = [k \in Creators |-> IdleCreator]
  /\ result = NoResult

Init == InitOn(BotConfigs, Hosts) /\ probe = NoProbe

\* The 'error' event of a failed spawn is queued with process.nextTick; a
\* stopBot whose exitPromise was resolved, and the route awaiting a call that
\* has returned, continue in a microtask: they run before any other callback.
TickPending ==
  \/ \E c \in Children : child[c].st = "spawnerr"
  \/ \E r \in Reqs : req[r].pc \in {"t_resumed", "done", "d_delete"}

UnbornChildren == {c \in Children : child[c].st = "unborn"}
\* calls that may still spawn a child
Starting == {r \in Reqs : req[r].op \in {"start", "restart"}
                          /\ req[r].pc \notin {"s_monitor", "s_veto", "s_catch", "done"}}

\* ------------------------------------------------------------ startBot
\* bookkeeping of a status write made by a call
Stamp == IF ws.open THEN ws.clock + 1 ELSE 0
Noted(wrote, status) == {p \in wrote : p[1] # status} \cup {<<status, Stamp>>}
Tick == [ws EXCEPT !.clock = IF ws.open THEN @ + 1 ELSE @]

\* routes.ts: a start, stop or restart request for a bot whose row is gone is
\* answered 404; no such request is made while a delete of the bot is served
Callable(b) ==
  /\ <<b, "bot">> \notin deleted
  /\ ~\E r \in Reqs : req[r].op = "delete" /\ req[r].bot = b /\ req[r].pc # "idle"

Done(r, success, message) ==
  [req EXCEPT ![r].pc = "done", ![r].res = [success |-> success, message |-> message]]

\* a variant of Catch that records the failure without writing the status
CatchWithoutStatus(r, message) ==
  /\ UNCHANGED <<bots, ws>>
  /\ req' = [req EXCEPT ![r].pc = "s_catch",
                        ![r].res = [success |-> FALSE, message |-> message]]

\* the catch block of startBot (lines 498-503) up to its await
Catch(r, message) ==
  /\ bots' = updateBot(req[r].bot, [status |-> "error"])
  /\ ws' = Tick
  /\ req' = [req EXCEPT ![r].pc = "s_catch",
                        ![r].wrote = Noted(@, "error"),
                        ![r].res = [success |-> FALSE, message |-> message]]

\* a caller invokes BotManager.startBot(botId): storage.getBot is awaited
CallStart(r, b) ==
  /\ ~TickPending
  /\ req[r].pc = "idle"
  /\ Callable(b)
  /\ calls < MaxCalls
  /\ Cardinality(UnbornChildren) > Cardinality(Starting)
  /\ req' = [req EXCEPT ![r] = [IdleReq EXCEPT !.op = "start", !.bot = b, !.pc = "s_getBot"]]
  /\ calls' = calls + 1
  /\ UNCHANGED <<cfg, bots, logs, processes, workspace, child, sampler, host, deleted, ws, side>>

\* lines 314-319: the already-running check, then status `starting`
StartCheck(r) ==
  /\ ~TickPending
  /\ req[r].pc = "s_getBot"
  /\ IF req[r].bot \in DOMAIN processes
       THEN /\ req' = Done(r, FALSE, <<"Bot is already running">>)
            /\ UNCHANGED <<bots, ws>>
       ELSE /\ bots' = updateBot(req[r].bot, [status |-> "starting"])
            /\ ws' = Tick
            /\ req' = [req EXCEPT ![r].pc = "s_validate",
                                  ![r].wrote = Noted(@, "starting")]
  /\ UNCHANGED <<cfg, logs, processes, workspace, child, sampler, host, calls, deleted, side>>

\* lines 298-306, 322-324: validateBot, then getBotFiles is awaited
StartValidate(r) ==
  LET bot == cfg[req[r].bot] IN
  /\ ~TickPending
  /\ req[r].pc = "s_validate"
  /\ IF bot.token = "" THEN Catch(r, <<"Failed to start bot: ", "Bot token is missing">>)
     ELSE IF bot.language = ""
       THEN Catch(r, <<"Failed to start bot: ", "Bot language is not specified">>)
     ELSE /\ req' = [req EXCEPT ![r].pc = "s_files"]
          /\ UNCHANGED <<bots, ws>>
  /\ UNCHANGED <<cfg, logs, processes, workspace, child, sampler, host, calls, deleted, side>>

\* a variant of StartRadar that computes the verdict and goes on regardless
StartRadarNoVeto(r) ==
  /\ ~TickPending
  /\ req[r].pc = "s_files"
  /\ req' = [req EXCEPT ![r].pc = "s_workspace"]
  /\ UNCHANGED <<cfg, bots, logs, processes, workspace, child, sampler, host, calls, deleted, ws, side>>

\* lines 326-337: the static RADAR verdict; a veto writes status `error`
StartRadar(r) ==
  LET radarAnalysis == analyzeCode(cfg[req[r].bot].files) IN
  /\ ~TickPending
  /\ req[r].pc = "s_files"
  /\ IF radarAnalysis.isSuspicious
       THEN /\ bots' = updateBot(req[r].bot, [status |-> "error"])
            /\ ws' = Tick
            /\ req' = [req EXCEPT ![r].pc = "s_veto", ![r].wrote = Noted(@, "error")]
       ELSE /\ req' = [req EXCEPT ![r].pc = "s_workspace"]
            /\ UNCHANGED <<bots, ws>>
  /\ UNCHANGED <<cfg, logs, processes, workspace, child, sampler, host, calls, deleted, side>>

\* lines 330-334: after the veto's status write: the error log and the result
StartVetoReturn(r) ==
  LET radarAnalysis == analyzeCode(cfg[req[r].bot].files) IN
  /\ ~TickPending
  /\ req[r].pc = "s_veto"
  /\ logs' = createBotLog(LogRecord(req[r].bot, "error",
                 <<"RADAR: Suspicious code detected. Risk score: ",
                   ToString(radarAnalysis.riskScore), ". Reasons: ">>
                 \o Join(radarAnalysis.reasons, ", ")))
  /\ req' = Done(r, FALSE,
                 <<"Bot blocked by RADAR system. Suspicious activity detected: ">>
                 \o radarAnalysis.reasons[1])
  /\ UNCHANGED <<cfg, bots, processes, workspace, child, sampler, host, calls, deleted, ws, side>>

\* lines 499-502: after the catch block's status write
StartCatchReturn(r) ==
  /\ ~TickPending
  /\ req[r].pc = "s_catch"
  /\ logs' = createBotLog(LogRecord(req[r].bot, "error", req[r].res.message))
  /\ req' = [req EXCEPT ![r].pc = "done"]
  /\ UNCHANGED <<cfg, bots, processes, workspace, child, sampler, host, calls, deleted, ws, side>>

\* lines 110-128: createBotWorkspace completes (mkdir, then one writeFile per file)
StartWorkspace(r) ==
  /\ ~TickPending
  /\ req[r].pc = "s_workspace"
  /\ workspace' = workspace \cup {req[r].bot}
  /\ IF host.disk \/ cfg[req[r].bot].files = <<>>
       THEN /\ req' = [req EXCEPT ![r].pc = "s_install"]
            /\ UNCHANGED <<bots, ws>>
       ELSE Catch(r, <<"Failed to start bot: ", "ENOSPC: no space left on device, write">>)
  /\ UNCHANGED <<cfg, logs, processes, child, sampler, host, calls, deleted, side>>

\* lines 352-364, 394-406: the main file startBot decides to run ("" when none)
commonMainFiles(language) ==
  IF language = "python"
    THEN <<"main.py", "bot.py", "app.py", "run.py", "__main__.py", "start.py">>
    ELSE <<"index.js", "main.js", "app.js", "bot.js", "start.js", "server.js">>

LanguageFiles(language, files) ==
  SelectSeq(files, LAMBDA f : IF language = "python" THEN f.filename.ext = ".py"
                                                      ELSE f.filename.ext \in {".js", ".ts"})

\* lines 354-384 and 396-424: the stored main file, else the first file whose
\* lower-cased name is a common one, else the first file of the language; a
\* name that is not in the workspace gives way to the first file of the
\* language.  "" stands for the thrown 'No ... files found'.
ResolveMain(bot) ==
  LET langFiles == LanguageFiles(bot.language, bot.files)
      common == SelectSeq(langFiles,
                  LAMBDA f : Includes(commonMainFiles(bot.language), f.filename.lower))
      mainFile == IF bot.mainFile # "" THEN bot.mainFile
                  ELSE IF common # <<>> THEN common[1].filename.name
                  ELSE IF langFiles # <<>> THEN langFiles[1].filename.name
                  ELSE ""
      mainFileExists == \E i \in 1..Len(bot.files) : bot.files[i].filename.name = mainFile
  IN  IF mainFile = "" \/ mainFileExists THEN mainFile
      ELSE IF langFiles # <<>> THEN langFiles[1].filename.name
      ELSE ""

\* lines 130-235: after autoCreateDependencies the workspace has a manifest
\* (requirements.txt / package.json) if one was uploaded or a file of the
\* language exists
HasManifest(bot) ==
  \/ \E i \in 1..Len(bot.files) :
        bot.files[i].filename.name \in {"requirements.txt", "package.json"}
  \/ LanguageFiles(bot.language, bot.files) # <<>>

\* a variant of installDependencies without its outer try/catch: the error of
\* the last package-tool command reaches startBot
installDependenciesUncaught(bot, h) ==
  IF bot.language \notin {"python", "nodejs"} \/ ~HasManifest(bot) THEN "skipped"
  ELSE IF h.pip THEN "installed"
  ELSE "thrown"

\* lines 237-296, 572-627: installDependencies.  Every runCommand that exits
\* non-zero, cannot be spawned or times out rejects; when the last attempt has
\* rejected the error is caught and written to the console.
installDependencies(bot, h) ==
  IF bot.language \notin {"python", "nodejs"} \/ ~HasManifest(bot) THEN "skipped"
  ELSE IF h.pip THEN "installed"
  ELSE "failed"

\* lines 339-373: autoCreateDependencies and installDependencies have
\* completed; the main file is resolved and fs.access on it is awaited
StartInstall(r) ==
  LET bot == cfg[req[r].bot] IN
  /\ ~TickPending
  /\ req[r].pc = "s_install"
  /\ IF installDependencies(bot, host) = "thrown"
       THEN Catch(r, <<"Failed to start bot: ", "Command failed with exit code 1">>)
     ELSE IF bot.language \notin {"python", "nodejs"}
       THEN Catch(r, <<"Failed to start bot: ", "Unsupported language: ", bot.language>>)
     ELSE IF ResolveMain(bot) = ""
       THEN Catch(r, <<"Failed to start bot: ",
                       IF bot.language = "python" THEN "No Python files found to execute"
                                                  ELSE "No JavaScript files found to execute">>)
     ELSE /\ req' = [req EXCEPT ![r].pc = "s_spawn"]
          /\ UNCHANGED <<bots, ws>>
  /\ UNCHANGED <<cfg, logs, processes, workspace, child, sampler, host, calls, deleted, side>>

\* the program in the file that is run
MainProgram(bot) ==
  LET i == CHOOSE i \in 1..Len(bot.files) : bot.files[i].filename.name = ResolveMain(bot)
  IN  bot.files[i].run

\* lines 344-350: the environment handed to the child
ChildEnv(b) == [DISCORD_TOKEN |-> cfg[b].token, BOT_ID |-> b]

\* lines 389-393, 428-437, 487-492: spawn, processes.set, the observers are
\* attached, status `running` is written with the pid.  A runtime binary that
\* is missing makes spawn return a ChildProcess without pid whose 'error'
\* event is queued.
StartSpawn(r) ==
  LET b == req[r].bot
      c == CHOOSE x \in UnbornChildren : \A y \in UnbornChildren : x <= y
  IN
  /\ ~TickPending
  /\ req[r].pc = "s_spawn"
  /\ UnbornChildren # {}
  /\ child' = [child EXCEPT ![c] =
       [Unborn EXCEPT !.bot = b, !.st = IF host.runtime THEN "live" ELSE "spawnerr",
                      !.prog = MainProgram(cfg[b]), !.env = ChildEnv(b)]]
  /\ bots' = updateBot(b, [status |-> "running",
                           processId |-> IF host.runtime THEN c ELSE 0,
                           lastStarted |-> TRUE])
  /\ processes' = MapSet(processes, b, c)
  /\ ws' = Tick
  /\ req' = [req EXCEPT ![r].pc = "s_monitor", ![r].child = c,
                        ![r].wrote = Noted(@, "running")]
  /\ UNCHANGED <<cfg, logs, workspace, sampler, host, calls, deleted, side>>

\* lines 494-497: startMonitoring, then the result
StartMonitor(r) ==
  /\ ~TickPending
  /\ req[r].pc = "s_monitor"
  /\ sampler' = [sampler EXCEPT ![req[r].child] =
                   [NoSampler EXCEPT !.st = "idle", !.bot = req[r].bot]]
  /\ req' = Done(r, TRUE, <<"Bot started successfully">>)
  /\ UNCHANGED <<cfg, bots, logs, processes, workspace, child, host, calls, deleted, ws, side>>

\* ------------------------------------------------- the child processes
\* the program writes a chunk to its stdout or stderr
ChildWrite(c) ==
  /\ ~TickPending
  /\ child[c].st = "live"
  /\ child[c].pipe = <<>>
  /\ \E chunk \in Chunks(c) : child' = [child EXCEPT ![c].pipe = <<chunk>>]
  /\ UNCHANGED <<cfg, bots, logs, processes, workspace, sampler, req, host, calls, deleted, ws, side>>

\* the program ends by itself
ChildExit(c) ==
  /\ ~TickPending
  /\ child[c].st = "live"
  /\ \E code \in Program(child[c].prog).exits :
       child' = [child EXCEPT ![c].st = "dead", ![c].code = code]
  /\ UNCHANGED <<cfg, bots, logs, processes, workspace, sampler, req, host, calls, deleted, ws, side>>

\* process.kill(signal): SIGKILL ends a live process, SIGTERM ends it unless
\* the program ignores the signal; the exit code of a signalled process is null
Kill(ch, c, signal) ==
  IF ch[c].st = "live" /\ (signal = "SIGKILL" \/ ~Program(ch[c].prog).ign)
    THEN [ch EXCEPT ![c].st = "dead", ![c].code = Null, ![c].sig = signal]
    ELSE ch

\* lines 440-448: the stdout 'data' observer
IsReadyLine(output) ==
  \/ Includes(output, "Logged in as")
  \/ Includes(output, "Bot is ready")
  \/ Includes(output, "Successfully logged in")

StdoutObserver(c) ==
  /\ ~TickPending
  /\ child[c].pipe # <<>>
  /\ child[c].pipe[1].fd = "stdout"
  /\ LET output == child[c].pipe[1].data IN
       /\ bots' = IF IsReadyLine(output)
                    THEN updateBot(child[c].bot, [status |-> "running"])
                    ELSE bots
       /\ logs' = createBotLog(LogRecord(child[c].bot, "info", output))
  /\ child' = [child EXCEPT ![c].pipe = <<>>]
  /\ UNCHANGED <<cfg, processes, workspace, sampler, req, host, calls, deleted, ws, side>>

\* lines 450-458: the stderr 'data' observer
IsTokenFailure(output) ==
  \/ Includes(output, "LoginFailure")
  \/ Includes(output, "Improper token")
  \/ Includes(output, "Unauthorized")
  \/ Includes(output, "Invalid token")

StderrObserver(c) ==
  /\ ~TickPending
  /\ child[c].pipe # <<>>
  /\ child[c].pipe[1].fd = "stderr"
  /\ LET output == child[c].pipe[1].data IN
       /\ bots' = IF IsTokenFailure(output)
                    THEN updateBot(child[c].bot, [status |-> "error"])
                    ELSE bots
       /\ logs' = createBotLog(LogRecord(child[c].bot, "error", output))
  /\ child' = [child EXCEPT ![c].pipe = <<>>]
  /\ UNCHANGED <<cfg, processes, workspace, sampler, req, host, calls, deleted, ws, side>>

\* a variant of ExitStatus that tests the code for truthiness (`code ? 'error' : 'stopped'`)
ExitStatusTruthy(code) == IF code = 0 \/ code = Null THEN "stopped" ELSE "error"

\* line 462: the status the exit observer persists
ExitStatus(code) == IF code = 0 THEN "stopped" ELSE "error"

CodeText(code) == IF code = Null THEN "null" ELSE ToString(code)

\* stopBot calls waiting for the 'exit' event of child c (lines 529-532)
StopWaiters(c) == {r \in Reqs : req[r].pc = "t_wait" /\ req[r].child = c}

\* lines 460-468 and 529-532: the 'exit' event of child c.  The exit observer
\* removes the handle and issues its status write; the once('exit') listener
\* of a waiting stopBot resolves its promise.
ExitObserver(c) ==
  LET b == child[c].bot IN
  /\ ~TickPending
  /\ child[c].st = "dead"
  /\ child' = [child EXCEPT ![c].st = "exitwait"]
  /\ processes' = MapDelete(processes, b)
  /\ bots' = updateBot(b, ResetPatch(ExitStatus(child[c].code)))
  /\ req' = [r \in Reqs |-> IF r \in StopWaiters(c) THEN [req[r] EXCEPT !.pc = "t_resumed"]
                                                     ELSE req[r]]
  /\ UNCHANGED <<cfg, logs, workspace, sampler, host, calls, deleted, ws, side>>

\* lines 470-473: the exit observer after its status write
ExitObserverLog(c) ==
  /\ ~TickPending
  /\ child[c].st = "exitwait"
  /\ child' = [child EXCEPT ![c].st = "reaped"]
  /\ logs' = createBotLog(LogRecord(child[c].bot, IF child[c].code = 0 THEN "info" ELSE "error",
                                  <<"Process exited with code ", CodeText(child[c].code)>>))
  /\ UNCHANGED <<cfg, bots, processes, workspace, sampler, req, host, calls, deleted, ws, side>>

\* lines 476-485: the 'error' event of a child that could not be spawned
ErrorObserver(c) ==
  /\ child[c].st = "spawnerr"
  /\ child' = [child EXCEPT ![c].st = "failed"]
  /\ processes' = MapDelete(processes, child[c].bot)
  /\ bots' = updateBot(child[c].bot, ResetPatch("error"))
  /\ logs' = createBotLog(LogRecord(child[c].bot, "error",
                                  <<"Process error: ", "spawn python3 ENOENT">>))
  /\ UNCHANGED <<cfg, workspace, sampler, req, host, calls, deleted, ws, side>>

\* -------------------------------------------------------------- stopBot
\* a stopBot that has returned: restartBot goes on to its delay, the delete
\* route to storage.deleteBot
StopReturned(r, message) ==
  IF req[r].op = "restart" THEN [req EXCEPT ![r].pc = "r_delay"]
  ELSE IF req[r].op = "delete" THEN [req EXCEPT ![r].pc = "d_delete"]
  ELSE Done(r, TRUE, message)

\* lines 506-533: stopBot up to its first await.  Without a handle it issues
\* the `stopped` write; with one it sends SIGTERM and waits for the 'exit'
\* event or the 5 s timer.
StopBegin(r, b, op) ==
  /\ ~TickPending
  /\ req[r].pc = "idle"
  /\ Callable(b)
  /\ calls < MaxCalls
  /\ calls' = calls + 1
  /\ op = "restart" => Cardinality(UnbornChildren) > Cardinality(Starting)
  /\ IF b \notin DOMAIN processes
       THEN /\ bots' = updateBot(b, ResetPatch("stopped"))
            /\ ws' = Tick
            /\ req' = [req EXCEPT ![r] = [IdleReq EXCEPT !.op = op, !.bot = b,
                                                         !.pc = "t_notrunning",
                                                         !.wrote = {<<"stopped", Stamp>>}]]
            /\ UNCHANGED child
       ELSE /\ child' = Kill(child, processes[b], "SIGTERM")
            /\ req' = [req EXCEPT ![r] = [IdleReq EXCEPT !.op = op, !.bot = b, !.pc = "t_wait",
                                                         !.child = processes[b]]]
            /\ UNCHANGED <<bots, ws>>
  /\ UNCHANGED <<cfg, logs, processes, workspace, sampler, host, deleted, side>>

CallStop(r, b) == StopBegin(r, b, "stop")

\* lines 562-563: restartBot calls stopBot
CallRestart(r, b) == StopBegin(r, b, "restart")

\* line 515
StopNotRunningReturn(r) ==
  /\ ~TickPending
  /\ req[r].pc = "t_notrunning"
  /\ req' = StopReturned(r, <<"Bot was not running">>)
  /\ UNCHANGED <<cfg, bots, logs, processes, workspace, child, sampler, host, calls, deleted, ws, side>>

\* lines 524-527: the 5 s timer fires while the child is still running
StopTimeout(r) ==
  /\ ~TickPending
  /\ req[r].pc = "t_wait"
  /\ child[req[r].child].st = "live"
  /\ child' = Kill(child, req[r].child, "SIGKILL")
  /\ req' = [req EXCEPT ![r].pc = "t_resumed"]
  /\ UNCHANGED <<cfg, bots, logs, processes, workspace, sampler, host, calls, deleted, ws, side>>

\* lines 535-543: after exitPromise: the handle is removed, `stopped` is written
StopResume(r) ==
  /\ req[r].pc = "t_resumed"
  /\ processes' = MapDelete(processes, req[r].bot)
  /\ bots' = updateBot(req[r].bot, ResetPatch("stopped"))
  /\ ws' = Tick
  /\ req' = [req EXCEPT ![r].pc = "t_rm", ![r].wrote = Noted(@, "stopped")]
  /\ UNCHANGED <<cfg, logs, workspace, child, sampler, host, calls, deleted, side>>

\* lines 545-552: the workspace directory is removed
StopCleanup(r) ==
  /\ ~TickPending
  /\ req[r].pc = "t_rm"
  /\ workspace' = workspace \ {req[r].bot}
  /\ req' = [req EXCEPT ![r].pc = "t_ret"]
  /\ UNCHANGED <<cfg, bots, logs, processes, child, sampler, host, calls, deleted, ws, side>>

\* line 554
StopReturn(r) ==
  /\ ~TickPending
  /\ req[r].pc = "t_ret"
  /\ req' = StopReturned(r, <<"Bot stopped successfully">>)
  /\ UNCHANGED <<cfg, bots, logs, processes, workspace, child, sampler, host, calls, deleted, ws, side>>

\* lines 564-565: restartBot's 1 s delay is over; startBot is called
RestartDelay(r) ==
  /\ ~TickPending
  /\ req[r].pc = "r_delay"
  /\ req' = [req EXCEPT ![r].pc = "s_getBot", ![r].child = NoChild]
  /\ UNCHANGED <<cfg, bots, logs, processes, workspace, child, sampler, host, calls, deleted, ws, side>>

\* routes.ts 294-300, 343-347, 368-374, 422-425: the message the route
\* broadcasts once the call has returned
RouteMessage(r) ==
  CASE req[r].op \in {"start", "restart"} ->
         [type |-> "bot_status_update", botId |-> req[r].bot,
          status |-> IF req[r].res.success THEN "starting" ELSE "error"]
    [] req[r].op = "stop" ->
         [type |-> "bot_status_update", botId |-> req[r].bot, status |-> "stopped"]
    [] OTHER -> [type |-> "bot_deleted", botId |-> req[r].bot]

\* the count at which the call wrote the status the message announces
StampOf(r, msg) ==
  IF msg.type = "bot_status_update" /\ \E p \in req[r].wrote : p[1] = msg.status
    THEN (CHOOSE p \in req[r].wrote : p[1] = msg.status)[2]
    ELSE 0

\* routes.ts 38-46: broadcastToUser sends on the owner's socket if it is open
broadcastToUser(r, msg) ==
  IF ws.open
    THEN [ws EXCEPT !.sent = Append(@, msg), !.stamps = Append(@, StampOf(r, msg))]
    ELSE ws

\* the route handler continues in the turn in which the call returns: it
\* broadcasts and answers (a failed delete is answered 500 without a broadcast)
Return(r) ==
  /\ req[r].pc = "done"
  /\ ws' = IF req[r].op = "delete" /\ ~req[r].res.success
             THEN ws
             ELSE broadcastToUser(r, RouteMessage(r))
  /\ req' = [req EXCEPT ![r] = IdleReq]
  /\ UNCHANGED <<cfg, bots, logs, processes, workspace, child, sampler, host, calls, deleted, side>>

\* ------------------------------------------------------ resource sampler
\* lines 639-644: a tick of the interval: the handle registered for the bot
SamplerTick(s) ==
  /\ ~TickPending
  /\ sampler[s].st = "idle"
  /\ sampler' = [sampler EXCEPT ![s] =
       IF sampler[s].bot \notin DOMAIN processes
         THEN NoSampler
         ELSE [sampler[s] EXCEPT !.st = "query", !.proc = processes[sampler[s].bot]]]
  /\ UNCHANGED <<cfg, bots, logs, processes, workspace, child, req, host, calls, deleted, ws, side>>

\* lines 646-670, 684-688: pidusage has answered.  It fails for a process that
\* is gone; a breach of the limits kills the process, removes the handle and
\* writes status `error`.
SamplerStats(s) ==
  LET b == sampler[s].bot
      c == sampler[s].proc
  IN
  /\ ~TickPending
  /\ sampler[s].st = "query"
  /\ IF child[c].st # "live"
       THEN /\ sampler' = [sampler EXCEPT ![s] = NoSampler]
            /\ UNCHANGED <<bots, logs, processes, child>>
       ELSE \E stats \in Program(child[c].prog).usage :
              LET radarCheck == monitorResourceUsage(stats) IN
              IF radarCheck.isAbusive
                THEN /\ logs' = createBotLog(LogRecord(b, "warn",
                                  <<"RADAR: Resource abuse detected - ">>
                                  \o Join(radarCheck.reasons, ", ")))
                     /\ child' = Kill(child, c, "SIGKILL")
                     /\ processes' = MapDelete(processes, b)
                     /\ bots' = updateBot(b, ResetPatch("error"))
                     /\ sampler' = [sampler EXCEPT ![s].st = "killed", ![s].stats = stats]
                ELSE /\ sampler' = [sampler EXCEPT ![s].st = "getbot", ![s].stats = stats]
                     /\ UNCHANGED <<bots, logs, processes, child>>
  /\ UNCHANGED <<cfg, workspace, req, host, calls, deleted, ws, side>>

\* lines 667-669: after the kill's status write
SamplerKilled(s) ==
  /\ ~TickPending
  /\ sampler[s].st = "killed"
  /\ logs' = createBotLog(LogRecord(sampler[s].bot, "error",
                                  <<"Bot terminated due to resource abuse">>))
  /\ sampler' = [sampler EXCEPT ![s] = NoSampler]
  /\ UNCHANGED <<cfg, bots, processes, workspace, child, req, host, calls, deleted, ws, side>>

\* lines 673-683: storage.getBot has answered; the sampled values are written
SamplerWrite(s) ==
  /\ ~TickPending
  /\ sampler[s].st = "getbot"
  /\ bots' = IF bots[sampler[s].bot].lastStarted
               THEN updateBot(sampler[s].bot,
                              [memoryUsage |-> FormatMemory(sampler[s].stats),
                               cpuUsage |-> FormatCpu(sampler[s].stats)])
               ELSE bots
  /\ sampler' = [sampler EXCEPT ![s].st = "idle", ![s].proc = NoChild, ![s].stats = NoStats]
  /\ UNCHANGED <<cfg, logs, processes, workspace, child, req, host, calls, deleted, ws, side>>

\* ------------------------------------------------ routes.ts: websocket
\* lines 24-28: the owner's client connects (between two requests)
WsConnect ==
  /\ ~TickPending
  /\ ~ws.open
  /\ \A r \in Reqs : req[r].pc = "idle"
  /\ ws' = [NoSocket EXCEPT !.open = TRUE, !.had = logs]
  /\ UNCHANGED <<cfg, bots, logs, processes, workspace, child, sampler, req, host, calls, deleted, side>>

\* lines 30-34: the client's socket closes (between two requests)
WsClose ==
  /\ ~TickPending
  /\ ws.open
  /\ \A r \in Reqs : req[r].pc = "idle"
  /\ ws' = NoSocket
  /\ UNCHANGED <<cfg, bots, logs, processes, workspace, child, sampler, req, host, calls, deleted, side>>

\* --------------------------------------------- routes.ts: DELETE /api/bots
\* lines 404-411: the delete route awaits storage.getBot.  The request is made
\* while no other call on the bot is being served.
CallDelete(r, b) ==
  /\ ~TickPending
  /\ req[r].pc = "idle"
  /\ calls < MaxCalls
  /\ <<b, "bot">> \notin deleted
  /\ \A r2 \in Reqs : req[r2].bot = b => req[r2].pc \in {"idle", "done"}
  /\ req' = [req EXCEPT ![r] = [IdleReq EXCEPT !.op = "delete", !.bot = b, !.pc = "d_getBot"]]
  /\ calls' = calls + 1
  /\ UNCHANGED <<cfg, bots, logs, processes, workspace, child, sampler, host, deleted, ws, side>>

\* part_006 239-241 (113-114): deleteBot deletes the bot row first.  With
\* PostgresStorage the foreign keys bot_files.bot_id and bot_logs.bot_id
\* (schema.ts 37, 46) reject that while rows of the bot exist: deleteBot
\* throws and the route answers 500.
HasFiles(b) == cfg[b].files # <<>> /\ <<b, "files">> \notin deleted
HasLogs(b) == \E rec \in logs : rec.botId = b

deleteBot(r) ==
  LET b == req[r].bot IN
  IF host.db = "pg" /\ (HasFiles(b) \/ HasLogs(b))
    THEN /\ req' = Done(r, FALSE, <<"Failed to delete bot">>)
         /\ UNCHANGED deleted
    ELSE /\ deleted' = deleted \cup {<<b, "bot">>}
         /\ req' = [req EXCEPT ![r].pc = "d_files"]

\* lines 413-419: if the bot is running stopBot is called (SIGTERM, then the
\* wait for 'exit' or the timer), else storage.deleteBot
DeleteCheck(r) ==
  LET b == req[r].bot IN
  /\ ~TickPending
  /\ req[r].pc = "d_getBot"
  /\ IF b \in DOMAIN processes
       THEN /\ child' = Kill(child, processes[b], "SIGTERM")
            /\ req' = [req EXCEPT ![r].pc = "t_wait", ![r].child = processes[b]]
            /\ UNCHANGED deleted
       ELSE /\ deleteBot(r)
            /\ UNCHANGED child
  /\ UNCHANGED <<cfg, bots, logs, processes, workspace, sampler, host, calls, ws, side>>

\* line 419: stopBot has returned; in the same turn storage.deleteBot
DeleteRow(r) ==
  /\ req[r].pc = "d_delete"
  /\ deleteBot(r)
  /\ UNCHANGED <<cfg, bots, logs, processes, workspace, child, sampler, host, calls, ws, side>>

\* part_006 242 (116): the bot row is gone; deleteBotFiles
DeleteFiles(r) ==
  /\ ~TickPending
  /\ req[r].pc = "d_files"
  /\ deleted' = deleted \cup {<<req[r].bot, "files">>}
  /\ req' = [req EXCEPT ![r].pc = "d_logs"]
  /\ UNCHANGED <<cfg, bots, logs, processes, workspace, child, sampler, host, calls, ws, side>>

\* part_006 243-244 (117): clearBotLogs, then deleteBot returns true
DeleteLogs(r) ==
  /\ ~TickPending
  /\ req[r].pc = "d_logs"
  /\ logs' = {rec \in logs : rec.botId # req[r].bot}
  /\ req' = Done(r, TRUE, <<>>)
  /\ UNCHANGED <<cfg, bots, processes, workspace, child, sampler, host, calls, deleted, ws, side>>

\* ------------------------------------------------ routes.ts: POST /api/bots
\* lines 227-233: the route awaits storage.getBotsByUserId; the rows are read
CreateCall(k) ==
  /\ creator[k].pc = "idle"
  /\ owned < MaxOwned
  /\ creator' = [creator EXCEPT ![k] = [pc |-> "c_count", seen |-> owned]]
  /\ UNCHANGED <<cfg, bots, logs, processes, workspace, child, sampler, req, host, calls,
                 deleted, ws, net, owned, probe, result>>

\* lines 234-259: the limit check on the rows read, then storage.createBot
\* (the upload is valid)
CreateCheck(k) ==
  /\ creator[k].pc = "c_count"
  /\ IF creator[k].seen >= MAX_BOTS_PER_USER
       THEN /\ creator' = [creator EXCEPT ![k].pc = "rejected"]
            /\ UNCHANGED owned
       ELSE /\ owned' = owned + 1
            /\ creator' = [creator EXCEPT ![k].pc = "c_files"]
  /\ UNCHANGED <<cfg, bots, logs, processes, workspace, child, sampler, req, host, calls,
                 deleted, ws, net, probe, result>>

\* lines 261-271: the files are saved and the bot is returned
CreateFiles(k) ==
  /\ creator[k].pc = "c_files"
  /\ creator' = [creator EXCEPT ![k].pc = "created"]
  /\ UNCHANGED <<cfg, bots, logs, processes, workspace, child, sampler, req, host, calls,
                 deleted, ws, net, owned, probe, result>>

\* the response (400 'Bot limit reached' or the bot) has been sent
CreateReturn(k) ==
  /\ creator[k].pc \in {"rejected", "created"}
  /\ creator' = [creator EXCEPT ![k] = IdleCreator]
  /\ UNCHANGED <<cfg, bots, logs, processes, workspace, child, sampler, req, host, calls,
                 deleted, ws, net, owned, probe, result>>

\* ------------------------------------- autoCreateDependencies (python)
\* lines 148-163: the markers looked for in each line, with the requirement
\* each adds, in the order of the code
pythonMarkers ==
  << [markers |-> {"discord.py", "import discord", "from discord"}, pin |-> "discord.py>=2.3.0"],
     [markers |-> {"aiohttp", "import aiohttp"},   pin |-> "aiohttp>=3.8.0"],
     [markers |-> {"requests", "import requests"}, pin |-> "requests>=2.28.0"],
     [markers |-> {"asyncio", "import asyncio"},   pin |-> "asyncio"],
     [markers |-> {"json", "import json"},         pin |-> "json5>=0.9.0"],
     [markers |-> {"sqlite3", "import sqlite3"},   pin |-> "sqlite3"],
     [markers |-> {"mysql", "pymysql"},            pin |-> "PyMySQL>=1.0.0"],
     [markers |-> {"postgres", "psycopg"},         pin |-> "psycopg2-binary>=2.9.0"],
     [markers |-> {"dotenv", "python-dotenv"},     pin |-> "python-dotenv>=0.19.0"] >>

\* source lines a file may hold
SourceLines ==
  {"import discord", "  From Discord import app_commands", "IMPORT AIOHTTP",
   "import pymysql", "load_dotenv()", "print('hi')"}

\* line.trim().toLowerCase()
cleanLine(line) ==
  CASE line = "  From Discord import app_commands" -> "from discord import app_commands"
    [] line = "IMPORT AIOHTTP" -> "import aiohttp"
    [] OTHER -> line

\* String.prototype.includes: the markers that are substrings of a text
MarkersIn(text) ==
  CASE text = "import discord" -> {"import discord"}
    [] text = "from discord import app_commands" -> {"from discord"}
    [] text = "From Discord import app_commands" -> {}
    [] text = "import aiohttp" -> {"aiohttp", "import aiohttp"}
    [] text = "import pymysql" -> {"mysql", "pymysql"}
    [] text = "load_dotenv()" -> {"dotenv"}
    [] OTHER -> {}

\* Set.prototype.add on a Set kept in insertion order
SetAdd(seq, x) == IF Includes(seq, x) THEN seq ELSE Append(seq, x)

\* lines 147-163: the markers of one line, row by row
RECURSIVE ScanLine(_, _, _)
ScanLine(imports, text, row) ==
  IF row > Len(pythonMarkers) THEN imports
  ELSE ScanLine(IF pythonMarkers[row].markers \cap MarkersIn(text) # {}
                  THEN SetAdd(imports, pythonMarkers[row].pin)
                  ELSE imports,
                text, row + 1)

\* lines 144-164: the lines of one file
RECURSIVE ScanLines(_, _)
ScanLines(imports, lines) ==
  IF lines = <<>> THEN imports
  ELSE ScanLines(ScanLine(imports, cleanLine(Head(lines)), 1), Tail(lines))

\* lines 142-165: the python files in order
RECURSIVE ScanFiles(_, _)
ScanFiles(imports, files) ==
  IF files = <<>> THEN imports
  ELSE ScanFiles(ScanLines(imports, Head(files).lines), Tail(files))

\* a variant without lines 167-170 (no requirement when no marker is found)
autoCreateDependenciesNoDefault(files) ==
  LET pythonFiles == SelectSeq(files, LAMBDA f : f.ext = ".py")
      imports == ScanFiles(<<>>, pythonFiles)
  IN  IF \E i \in 1..Len(files) : files[i].filename = "requirements.txt"
        THEN [st |-> "kept", content |-> <<>>]
      ELSE IF imports # <<>> THEN [st |-> "written", content |-> imports]
      ELSE [st |-> "absent", content |-> <<>>]

\* lines 132-175: autoCreateDependencies for language 'python' on a workspace
\* just materialized from `files`: what becomes of requirements.txt
autoCreateDependencies(files) ==
  LET pythonFiles == SelectSeq(files, LAMBDA f : f.ext = ".py")
      found == ScanFiles(<<>>, pythonFiles)
      imports == IF found = <<>> /\ pythonFiles # <<>> THEN <<"discord.py>=2.3.0">> ELSE found
  IN  IF \E i \in 1..Len(files) : files[i].filename = "requirements.txt"
        THEN [st |-> "kept", content |-> <<>>]
      ELSE IF imports # <<>> THEN [st |-> "written", content |-> imports]
      ELSE [st |-> "absent", content |-> <<>>]

\* startBot line 341 on the files of the probe
InferDependencies ==
  /\ probe.fn = "autoCreateDependencies"
  /\ result = NoResult
  /\ result' = autoCreateDependencies(probe.files)
  /\ UNCHANGED <<cfg, bots, logs, processes, workspace, child, sampler, req, host, calls,
                 deleted, ws, net, owned, creator, probe>>

\* ------------------------------------------- createBotWorkspace: token
\* File contents are sequences of lexemes.
DQ == "\""
SQ == "'"
Quote == {DQ, SQ}

\* lines 119-122: the four regular expressions, each a list of alternatives in
\* the order written, each alternative a sequence of sets of lexemes
placeholderPattern ==
  << << {"YOUR_BOT_TOKEN"} >>,
     << {DQ}, {"YOUR_BOT_TOKEN"}, {DQ} >>,
     << {SQ}, {"YOUR_BOT_TOKEN"}, {SQ} >> >>
processEnvPattern ==
  << << {"process.env.DISCORD_TOKEN"} >>,
     << {"process.env.BOT_TOKEN"} >>,
     << {"process.env.TOKEN"} >> >>
osEnvironPattern ==
  << << {"os.environ.get("}, Quote, {"DISCORD_TOKEN"}, Quote, {")"} >>,
     << {"os.environ["}, Quote, {"DISCORD_TOKEN"}, Quote, {"]"} >> >>
osGetenvPattern ==
  << << {"os.getenv("}, Quote, {"DISCORD_TOKEN"}, Quote, {")"} >> >>

MatchesAt(content, i, alt) ==
  /\ i + Len(alt) - 1 <= Len(content)
  /\ \A k \in 1..Len(alt) : content[i + k - 1] \in alt[k]

\* the first alternative that matches at position i, 0 if none does
FirstAlternative(content, i, pattern) ==
  IF \E a \in 1..Len(pattern) : MatchesAt(content, i, pattern[a])
    THEN CHOOSE a \in 1..Len(pattern) :
           /\ MatchesAt(content, i, pattern[a])
           /\ \A a2 \in 1..(a - 1) : ~MatchesAt(content, i, pattern[a2])
    ELSE 0

\* a replacement string is expanded at each match: $& stands for the match
RECURSIVE Expand(_, _)
Expand(replacement, matched) ==
  IF replacement = <<>> THEN <<>>
  ELSE (IF Head(replacement) = "$&" THEN matched ELSE <<Head(replacement)>>)
         \o Expand(Tail(replacement), matched)

\* String.prototype.replace(/pattern/g, replacement): matches are taken from
\* left to right, each search resuming after the previous match
RECURSIVE replaceFrom(_, _, _, _)
replaceFrom(content, i, pattern, replacement) ==
  IF i > Len(content) THEN <<>>
  ELSE LET a == FirstAlternative(content, i, pattern) IN
       IF a = 0
         THEN <<content[i]>> \o replaceFrom(content, i + 1, pattern, replacement)
         ELSE Expand(replacement, SubSeq(content, i, i + Len(pattern[a]) - 1))
                \o replaceFrom(content, i + Len(pattern[a]), pattern, replacement)

replace(content, pattern, replacement) == replaceFrom(content, 1, pattern, replacement)

\* lines 116-122: the content written for one file
substituteToken(content, botToken) ==
  LET quoted == <<DQ>> \o botToken \o <<DQ>>
      c1 == replace(content, placeholderPattern, quoted)
      c2 == replace(c1, processEnvPattern, quoted)
      c3 == replace(c2, osEnvironPattern, quoted)
  IN  replace(c3, osGetenvPattern, quoted)

RECURSIVE Flatten(_)
Flatten(seqs) == IF seqs = <<>> THEN <<>> ELSE Head(seqs) \o Flatten(Tail(seqs))

\* lines 114-125: one file of the probe is written to the workspace; the
\* stored BotFile is only read
MaterializeFile ==
  /\ probe.fn = "createBotWorkspace"
  /\ result = NoResult
  /\ result' = [st |-> "written",
                written |-> substituteToken(Flatten(probe.phrases), probe.token),
                stored |-> Flatten(probe.phrases)]
  /\ UNCHANGED <<cfg, bots, logs, processes, workspace, child, sampler, req, host, calls,
                 deleted, ws, net, owned, creator, probe>>

\* ------------------------------------------------ startBot: main file
\* lines 352-384 / 394-424 on the bot of the probe
ResolveEntry ==
  /\ probe.fn = "resolveMain"
  /\ result = NoResult
  /\ result' = [st |-> "resolved", mainFile |-> ResolveMain(probe.bot)]
  /\ UNCHANGED <<cfg, bots, logs, processes, workspace, child, sampler, req, host, calls,
                 deleted, ws, net, owned, creator, probe>>

\* routes.ts 404-417: the delete route looks only at BotManager.isRunning; a
\* delete request may arrive while a start of the bot is suspended between
\* its read of the files (line 324) and the registration of the handle
\* (line 437): the start holds its own copy of the row and the files
CallDeleteDuringStart(r, b) ==
  /\ ~TickPending
  /\ req[r].pc = "idle"
  /\ calls < MaxCalls
  /\ <<b, "bot">> \notin deleted
  /\ \E r2 \in Reqs : /\ req[r2].bot = b
                      /\ req[r2].op = "start"
                      /\ req[r2].pc \in {"s_workspace", "s_install", "s_spawn"}
  /\ \A r2 \in Reqs : req[r2].bot = b => req[r2].op # "delete"
  /\ req' = [req EXCEPT ![r] = [IdleReq EXCEPT !.op = "delete", !.bot = b, !.pc = "d_getBot"]]
  /\ calls' = calls + 1
  /\ UNCHANGED <<cfg, bots, logs, processes, workspace, child, sampler, host, deleted, ws, side>>

\* ------------------------------------- routes.ts: the registry wsClients
\* The registry with several connections per user.  A socket is identified by
\* its position in `sockets`, the order in which the server accepted them.
NoUser == ""
Users == {"u1", "u2"}
MaxSockets == 3
MaxMessages == 1

\* lines 24-28: a client connects to /ws; userId is read from the url, and a
\* connection that names a user is stored as that user's entry
Connect(userId) ==
  /\ Len(sockets) < MaxSockets
  /\ sockets' = Append(sockets, [userId |-> userId, readyState |-> "OPEN", received |-> 0])
  /\ wsClients' = IF userId # NoUser
                    THEN [u \in DOMAIN wsClients \cup {userId} |->
                            IF u = userId THEN Len(sockets) + 1 ELSE wsClients[u]]
                    ELSE wsClients
  /\ UNCHANGED <<cfg, bots, logs, processes, workspace, child, sampler, req, host, calls,
                 deleted, ws, owned, creator, probe, result>>

\* the closing handshake of a socket has begun: readyState is CLOSING until
\* the 'close' event
Closing(i) ==
  /\ sockets[i].readyState = "OPEN"
  /\ sockets' = [sockets EXCEPT ![i].readyState = "CLOSING"]
  /\ UNCHANGED <<cfg, bots, logs, processes, workspace, child, sampler, req, host, calls,
                 deleted, ws, wsClients, owned, creator, probe, result>>

\* lines 30-34: the 'close' event of socket i: the entry of its user is
\* deleted, whichever socket it holds
CloseObserver(i) ==
  LET userId == sockets[i].userId IN
  /\ sockets[i].readyState # "CLOSED"
  /\ sockets' = [sockets EXCEPT ![i].readyState = "CLOSED"]
  /\ wsClients' = IF userId # NoUser
                    THEN [u \in DOMAIN wsClients \ {userId} |-> wsClients[u]]
                    ELSE wsClients
  /\ UNCHANGED <<cfg, bots, logs, processes, workspace, child, sampler, req, host, calls,
                 deleted, ws, owned, creator, probe, result>>

\* lines 38-46: broadcastToUser(userId, data) sends on the registered socket
\* if its readyState is OPEN
Broadcast(userId) ==
  /\ \A i \in DOMAIN sockets : sockets[i].received < MaxMessages
  /\ sockets' = IF userId \in DOMAIN wsClients /\ sockets[wsClients[userId]].readyState = "OPEN"
                  THEN [sockets EXCEPT ![wsClients[userId]].received = @ + 1]
                  ELSE sockets
  /\ sockets' # sockets
  /\ UNCHANGED <<cfg, bots, logs, processes, workspace, child, sampler, req, host, calls,
                 deleted, ws, wsClients, owned, creator, probe, result>>

\* ------------------------------------------------------------- next
Next ==
  \/ \E c \in Children : ErrorObserver(c)
  \/ \E r \in Reqs : StopResume(r)
  \/ \E r \in Reqs, b \in Bots : CallStart(r, b)
  \/ \E r \in Reqs, b \in Bots : CallStop(r, b)
  \/ \E r \in Reqs, b \in Bots : CallRestart(r, b)
  \/ \E r \in Reqs : StartCheck(r)
  \/ \E r \in Reqs : StartValidate(r)
  \/ \E r \in Reqs : StartRadar(r)
  \/ \E r \in Reqs : StartVetoReturn(r)
  \/ \E r \in Reqs : StartCatchReturn(r)
  \/ \E r \in Reqs : StartWorkspace(r)
  \/ \E r \in Reqs : StartInstall(r)
  \/ \E r \in Reqs : StartSpawn(r)
  \/ \E r \in Reqs : StartMonitor(r)
  \/ \E r \in Reqs : StopNotRunningReturn(r)
  \/ \E r \in Reqs : StopTimeout(r)
  \/ \E r \in Reqs : StopCleanup(r)
  \/ \E r \in Reqs : StopReturn(r)
  \/ \E r \in Reqs : RestartDelay(r)
  \/ \E r \in Reqs : Return(r)
  \/ \E c \in Children : ChildWrite(c)
  \/ \E c \in Children : ChildExit(c)
  \/ \E c \in Children : StdoutObserver(c)
  \/ \E c \in Children : StderrObserver(c)
  \/ \E c \in Children : ExitObserver(c)
  \/ \E c \in Children : ExitObserverLog(c)
  \/ \E s \in Children : SamplerTick(s)
  \/ \E s \in Children : SamplerStats(s)
  \/ \E s \in Children : SamplerKilled(s)
  \/ \E s \in Children : SamplerWrite(s)

Spec == Init /\ [][Next]_vars

\* The same program with its callers taking turns: a call is made only when no
\* other call is in progress.
OneCallAtATime ==
  \A r \in Reqs :
    (req[r].pc = "idle" /\ req'[r].pc # "idle")
      => \A r2 \in Reqs : req[r2].pc \in {"idle", "done"}

NextSeq == Next /\ OneCallAtATime

SpecSeq == Init /\ [][NextSeq]_vars

\* The same program on hosts whose package tools fail.
InitInstall == InitOn(BotConfigs, HostsWithoutPip) /\ probe = NoProbe

SpecInstall == InitInstall /\ [][Next]_vars

\* ------------------------------------------- static RADAR over many files
\* Files whose lower-cased text matches any subset of: two keywords of the
\* first mining pattern, one of the pool pattern, one of the GPU pattern, one
\* obfuscation indicator; short or longer than 10000 lines.
RadarWords == {"mining", "bitcoin", "pool", "gpu", "eval("}
LongFile == 10001

RadarFile(name, content, lines) ==
  [filename |-> [name |-> name, lower |-> name, ext |-> ".py"],
   content |-> content, lines |-> lines, run |-> "ready"]

RadarConfigs ==
  { [token |-> "T0K3N", language |-> "python", mainFile |-> "",
     files |-> << RadarFile("bot.py", content, lines) >>] :
      content \in SUBSET RadarWords, lines \in {3, LongFile} }
  \cup
  { [token |-> "T0K3N", language |-> "python", mainFile |-> "",
     files |-> << RadarFile("bot.py", c1, 3), RadarFile("util.py", c2, 3) >>] :
      c1 \in {{"mining"}, {"mining", "pool"}}, c2 \in {{}, {"mining"}, {"bitcoin", "gpu"}} }

\* startBot on a host whose disk is full: a start that passes the verdict
\* fails when the workspace is written
InitRadar ==
  InitOn(RadarConfigs, {[runtime |-> TRUE, disk |-> FALSE, pip |-> TRUE, db |-> "pg"]})
    /\ probe = NoProbe

NextRadar ==
  \/ \E r \in Reqs, b \in Bots : CallStart(r, b)
  \/ \E r \in Reqs : StartCheck(r)
  \/ \E r \in Reqs : StartValidate(r)
  \/ \E r \in Reqs : StartRadar(r)
  \/ \E r \in Reqs : StartVetoReturn(r)
  \/ \E r \in Reqs : StartWorkspace(r)
  \/ \E r \in Reqs : StartCatchReturn(r)
  \/ \E r \in Reqs : Return(r)

SpecRadar == InitRadar /\ [][NextRadar]_vars

\* The route layer of routes.ts over the same engine: the owner's websocket,
\* the broadcasts after each call and the delete route, on hosts with the
\* in-memory store and with PostgreSQL.  The hosts have the runtime and the
\* resource sampler's timer is left out: its steps are those of Spec.
RouteConfigs ==
  { [token |-> "T0K3N", language |-> "python", mainFile |-> "", files |-> BenignFiles(run)] :
      run \in {"ready", "crash", "stubborn"} }
  \cup
  { [token |-> "T0K3N", language |-> "python", mainFile |-> "", files |-> MinerFiles],
    [token |-> "",      language |-> "python", mainFile |-> "", files |-> BenignFiles("ready")] }

RouteHosts == { [runtime |-> TRUE, disk |-> TRUE, pip |-> TRUE, db |-> "mem"],
                [runtime |-> TRUE, disk |-> TRUE, pip |-> TRUE, db |-> "pg"] }

InitRoutes == InitOn(RouteConfigs, RouteHosts) /\ probe = NoProbe

NextRoutes ==
  \/ \E r \in Reqs : StopResume(r)
  \/ \E r \in Reqs, b \in Bots : CallStart(r, b)
  \/ \E r \in Reqs, b \in Bots : CallStop(r, b)
  \/ \E r \in Reqs, b \in Bots : CallRestart(r, b)
  \/ \E r \in Reqs : StartCheck(r)
  \/ \E r \in Reqs : StartValidate(r)
  \/ \E r \in Reqs : StartRadar(r)
  \/ \E r \in Reqs : StartVetoReturn(r)
  \/ \E r \in Reqs : StartCatchReturn(r)
  \/ \E r \in Reqs : StartWorkspace(r)
  \/ \E r \in Reqs : StartInstall(r)
  \/ \E r \in Reqs : StartSpawn(r)
  \/ \E r \in Reqs : StartMonitor(r)
  \/ \E r \in Reqs : StopNotRunningReturn(r)
  \/ \E r \in Reqs : StopTimeout(r)
  \/ \E r \in Reqs : StopCleanup(r)
  \/ \E r \in Reqs : StopReturn(r)
  \/ \E r \in Reqs : RestartDelay(r)
  \/ \E r \in Reqs : Return(r)
  \/ \E c \in Children : ChildWrite(c)
  \/ \E c \in Children : ChildExit(c)
  \/ \E c \in Children : StdoutObserver(c)
  \/ \E c \in Children : StderrObserver(c)
  \/ \E c \in Children : ExitObserver(c)
  \/ \E c \in Children : ExitObserverLog(c)
  \/ WsConnect
  \/ WsClose
  \/ \E r \in Reqs, b \in Bots : CallDelete(r, b)
  \/ \E r \in Reqs : DeleteCheck(r)
  \/ \E r \in Reqs : DeleteRow(r)
  \/ \E r \in Reqs : DeleteFiles(r)
  \/ \E r \in Reqs : DeleteLogs(r)

SpecRoutes == InitRoutes /\ [][NextRoutes]_vars

\* The creation route on its own: requests of one user to create bots.
NextCreate ==
  \/ \E k \in Creators : CreateCall(k)
  \/ \E k \in Creators : CreateCheck(k)
  \/ \E k \in Creators : CreateFiles(k)
  \/ \E k \in Creators : CreateReturn(k)

SpecCreate == Init /\ [][NextCreate]_vars

\* autoCreateDependencies on its own, over uploads of up to MaxFiles files of
\* up to MaxLines lines.  endsWith('.py') is case-sensitive: COG.PY is not a
\* python file.
SourceFiles ==
  { [filename |-> n[1], ext |-> n[2], lines |-> l] :
      n \in {<<"bot.py", ".py">>, <<"COG.PY", ".PY">>, <<"notes.txt", ".txt">>,
             <<"requirements.txt", ".txt">>},
      l \in UNION {[1..k -> SourceLines] : k \in 0..MaxLines} }

Uploads == UNION {[1..k -> SourceFiles] : k \in 0..MaxFiles}

InitDeps ==
  /\ InitOn({[token |-> "T0K3N", language |-> "python", mainFile |-> "", files |-> <<>>]},
            {[runtime |-> TRUE, disk |-> TRUE, pip |-> TRUE, db |-> "pg"]})
  /\ probe \in {[fn |-> "autoCreateDependencies", files |-> u] : u \in Uploads}

SpecDeps == InitDeps /\ [][InferDependencies]_vars

\* createBotWorkspace's substitution on its own, over files made of up to
\* MaxPhrases phrases: the placeholder and the environment lookups in each
\* form, and other text; for a plain credential and for one holding `$&`.
PlaceholderForms ==
  { <<"YOUR_BOT_TOKEN">>, <<DQ, "YOUR_BOT_TOKEN", DQ>>, <<SQ, "YOUR_BOT_TOKEN", SQ>>,
    <<"process.env.DISCORD_TOKEN">>, <<"process.env.BOT_TOKEN">>, <<"process.env.TOKEN">>,
    <<"os.environ.get(", SQ, "DISCORD_TOKEN", SQ, ")">>,
    <<"os.environ.get(", DQ, "DISCORD_TOKEN", DQ, ")">>,
    <<"os.environ[", DQ, "DISCORD_TOKEN", DQ, "]">>,
    <<"os.getenv(", SQ, "DISCORD_TOKEN", SQ, ")">> }
OtherText == { <<"client.run(">>, <<")">>, <<" = ">> }
Phrases == PlaceholderForms \cup OtherText
Credentials == { <<"T0K3N">>, <<"T0", "$&", "K3N">> }

InitMaterialize ==
  /\ InitOn({[token |-> "T0K3N", language |-> "python", mainFile |-> "", files |-> <<>>]},
            {[runtime |-> TRUE, disk |-> TRUE, pip |-> TRUE, db |-> "pg"]})
  /\ probe \in {[fn |-> "createBotWorkspace", phrases |-> p, token |-> t] :
                  p \in UNION {[1..k -> Phrases] : k \in 0..MaxPhrases}, t \in Credentials}

SpecMaterialize == InitMaterialize /\ [][MaterializeFile]_vars

\* The choice of the main file on its own, over bots of both languages with
\* up to MaxEntryFiles files and a stored main file that is unset, present or
\* missing.
EntryFile(name, ext) == [filename |-> [name |-> name, lower |-> name, ext |-> ext]]
EntryFiles ==
  { EntryFile("main.py", ".py"), EntryFile("bot.py", ".py"), EntryFile("tool.py", ".py"),
    EntryFile("index.js", ".js"), EntryFile("bot.js", ".js"), EntryFile("notes.txt", ".txt") }
EntryBots ==
  { [token |-> "T0K3N", language |-> l, mainFile |-> m, files |-> f] :
      l \in {"python", "nodejs"},
      m \in {"", "tool.py", "bot.js"},
      f \in UNION {[1..k -> EntryFiles] : k \in 0..MaxEntryFiles} }

InitEntry ==
  /\ InitOn({[token |-> "T0K3N", language |-> "python", mainFile |-> "", files |-> <<>>]},
            {[runtime |-> TRUE, disk |-> TRUE, pip |-> TRUE, db |-> "pg"]})
  /\ probe \in {[fn |-> "resolveMain", bot |-> b] : b \in EntryBots}

SpecEntry == InitEntry /\ [][ResolveEntry]_vars

\* The route layer with delete requests that overlap a start in progress.
NextOverlap ==
  \/ NextRoutes
  \/ \E r \in Reqs, b \in Bots : CallDeleteDuringStart(r, b)

SpecOverlap == InitRoutes /\ [][NextOverlap]_vars

\* The registry of subscriber connections on its own.
NextSockets ==
  \/ \E u \in Users \cup {NoUser} : Connect(u)
  \/ \E i \in DOMAIN sockets : Closing(i)
  \/ \E i \in DOMAIN sockets : CloseObserver(i)
  \/ \E u \in Users : Broadcast(u)

SpecSockets == Init /\ [][NextSockets]_vars

\* =============================================================== claims
Status(b) == bots[b].status
HasHandle(b) == b \in DOMAIN processes
InProgress(r) == req[r].pc \notin {"idle", "done"}
\* child processes of bot b that were spawned and have not exited
LiveChildren(b) == {c \in Children : child[c].bot = b /\ child[c].st = "live"}
IsReset(bot) == bot.processId = Null /\ bot.memoryUsage = "0MB" /\ bot.cpuUsage = "0%"

\* C1: for any interleaving of start, stop and restart on the same bot, the
\* supervisor never has two spawned, not-yet-exited child processes for it.
C1_AtMostOneLiveChild == \A b \in Bots : Cardinality(LiveChildren(b)) <= 1

\* C2: whenever a bot's persisted status is `running`, a Process Handle is
\* registered for it and the exit of that child has not been processed
\* (states in the middle of one event-loop turn are not observed).
C2_RunningHasLiveHandle ==
  \A b \in Bots :
    (Status(b) = "running" /\ ~TickPending)
      => (HasHandle(b) /\ child[processes[b]].st \in {"live", "dead"})

\* C3: every step that changes a bot's persisted status to `stopped` or
\* `error` leaves pid null, memory "0MB" and CPU "0%".
C3_TerminalStatusResetsFields ==
  [][\A b \in Bots :
       (bots'[b].status \in {"stopped", "error"} /\ bots'[b].status # bots[b].status)
         => IsReset(bots'[b])]_vars

\* the bot is at rest: no call in progress, no event of a child or of a
\* sampler outstanding
Quiescent(b) ==
  /\ \A r \in Reqs : req[r].bot = b => ~InProgress(r)
  /\ \A c \in Children :
       child[c].bot = b => (child[c].st \in {"reaped", "failed"} /\ child[c].pipe = <<>>)
  /\ \A s \in Children : sampler[s].st = "off"

\* C4: after stop has escalated to SIGKILL on a child that ignores SIGTERM, and
\* once every resulting event (the killed child's exit event included) has
\* been processed, the persisted status is `stopped` (no start came later: the
\* killed child is the last one spawned).
C4_EscalatedStopEndsStopped ==
  \A c \in Children :
    ( /\ child[c].sig = "SIGKILL"
      /\ Program(child[c].prog).ign
      /\ \A d \in Children : d > c => child[d].st = "unborn"
      /\ Quiescent(child[c].bot) )
    => Status(child[c].bot) = "stopped"

\* C5: while one start, stop or restart on a bot is between its first and its
\* last step, no other call on the same bot executes a step.
C5_NoInterleavedStep ==
  [][\A r1, r2 \in Reqs :
       ( /\ r1 # r2
         /\ InProgress(r1) /\ InProgress(r2)
         /\ req[r1].bot = req[r2].bot )
       => req'[r2] = req[r2]]_vars

\* C6: no stored log record of a bot contains the bot's credential.
C6_NoCredentialInLogs ==
  \A rec \in logs :
    cfg[rec.botId].token # "" => ~Includes(rec.message, cfg[rec.botId].token)

\* C7: the step in which the exit observer of a child runs leaves no Process
\* Handle for the bot and persists `stopped` for exit code 0 and `error` for
\* any other exit, with pid null, memory "0MB" and CPU "0%".
C7_ExitObserverEffect ==
  [][\A c \in Children :
       (child[c].st = "dead" /\ child'[c].st = "exitwait")
         => /\ ~(child[c].bot \in DOMAIN processes')
            /\ bots'[child[c].bot].status = (IF child[c].code = 0 THEN "stopped" ELSE "error")
            /\ IsReset(bots'[child[c].bot])]_vars

C7_Witness ==
  \E c \in Children :
    /\ child[c].st = "exitwait" /\ child[c].code = Null
    /\ Status(child[c].bot) = "error" /\ ~HasHandle(child[c].bot)

\* C8: a start whose child could not be spawned returns ok=false, with the
\* Process Handle removed, status `error` and an error log of the spawn error.
C8_SpawnFailureFailsStart ==
  \A r \in Reqs :
    ( /\ req[r].pc = "done" /\ req[r].op \in {"start", "restart"}
      /\ req[r].child # NoChild
      /\ child[req[r].child].st = "failed" )
    => /\ req[r].res.success = FALSE
       /\ ~HasHandle(req[r].bot)
       /\ \E rec \in logs : /\ rec.botId = req[r].bot /\ rec.type = "error"
                            /\ Includes(rec.message, "Process error: ")

\* C9: the persisted status is `running` only after a stdout line of the child
\* with one of the readiness markers has been observed (every observed line
\* is in the log store); a start that has succeeded leaves it at `starting`.
C9_RunningOnlyAfterReadyLine ==
  \A b \in Bots :
    (Status(b) = "running" /\ ~TickPending)
      => \E rec \in logs : rec.botId = b /\ rec.type = "info" /\ IsReadyLine(rec.message)

\* C10: for a bot whose static RADAR verdict is `suspicious`: no workspace is
\* materialized, no child is spawned and no handle registered; the start goes
\* from the verdict to status `error`; and it then returns ok=false with a
\* message naming RADAR and the first reason, an error log record written.
Verdict(b) == analyzeCode(cfg[b].files)
SuspiciousConfigs == {k \in BotConfigs : analyzeCode(k.files).isSuspicious}

C10_StaticVeto ==
  [][\A b \in Bots : cfg[b] \in SuspiciousConfigs =>
       /\ b \notin workspace' /\ b \notin DOMAIN processes'
       /\ \A c \in Children : child'[c].bot # b
       /\ \A r \in Reqs :
            /\ (req[r].bot = b /\ req[r].pc = "s_files")
                 => (req'[r].pc \in {"s_files", "s_veto"}
                     /\ (req'[r].pc = "s_veto" => bots'[b].status = "error"))
            /\ (req[r].bot = b /\ req[r].pc = "s_veto" /\ req'[r].pc # "s_veto")
                 => /\ req'[r].pc = "done"
                    /\ req'[r].res.success = FALSE
                    /\ req'[r].res.message =
                         <<"Bot blocked by RADAR system. Suspicious activity detected: ">>
                         \o Verdict(b).reasons[1]
                    /\ \E rec \in logs' :
                         /\ rec.botId = b /\ rec.type = "error"
                         /\ Includes(rec.message, "RADAR: Suspicious code detected. Risk score: ")
                         /\ Includes(rec.message, ToString(Verdict(b).riskScore))]_vars

C10_Witness ==
  \E r \in Reqs :
    /\ req[r].pc = "done" /\ req[r].op = "start" /\ ~req[r].res.success
    /\ Includes(req[r].res.message, "Bot blocked by RADAR system. Suspicious activity detected: ")
    /\ Status(req[r].bot) = "error"
    /\ req[r].bot \notin workspace

\* the request has just passed the static verdict of startBot
AfterVerdict(r) == req[r].pc \in {"s_veto", "s_workspace"}
Vetoed(r) == req[r].pc = "s_veto"
\* keywords of the three mining patterns (lines 11-14)
MiningKeywords ==
  UNION {{suspiciousPatterns[p][i] : i \in 1..Len(suspiciousPatterns[p])} : p \in 1..3}
HasTwoMiningKeywords(files) ==
  \E i \in 1..Len(files) : Cardinality(files[i].content \cap MiningKeywords) >= 2
MatchesNothing(files) ==
  \A i \in 1..Len(files) : files[i].content = {} /\ files[i].lines <= 10000
\* the score counted hit by hit: one hit per (file, pattern) pair
PatternHits(files) ==
  {<<i, p>> \in (1..Len(files)) \X (1..Len(suspiciousPatterns)) :
     \E k \in 1..Len(suspiciousPatterns[p]) : suspiciousPatterns[p][k] \in files[i].content}
ObfuscationHits(files) ==
  {<<i, p>> \in (1..Len(files)) \X (1..Len(obfuscationIndicators)) :
     \E k \in 1..Len(obfuscationIndicators[p]) : obfuscationIndicators[p][k] \in files[i].content}
LargeFiles(files) == {i \in 1..Len(files) : files[i].lines > 10000}
CountedScore(files) ==
  10 * Cardinality(PatternHits(files)) + 15 * Cardinality(ObfuscationHits(files))
  + 5 * Cardinality(LargeFiles(files))

\* C11 (as stated): a bot with a file containing two mining keywords has risk
\* score at least 20 and its start is vetoed; a bot whose files match nothing
\* has score 0 and is not vetoed.
C11_TwoKeywordsVeto ==
  \A r \in Reqs : AfterVerdict(r) =>
    LET files == cfg[req[r].bot].files IN
    /\ HasTwoMiningKeywords(files) => (Verdict(req[r].bot).riskScore >= 20 /\ Vetoed(r))
    /\ MatchesNothing(files) => (Verdict(req[r].bot).riskScore = 0 /\ ~Vetoed(r))

\* C11 (amended): the score is 10 per (file, pattern) hit, 15 per obfuscation
\* indicator and 5 per file over 10000 lines, and start is vetoed exactly when
\* it exceeds 20: two mining keywords alone score 10 or 20 and do not veto,
\* hits on three patterns veto, files matching nothing score 0 and do not veto.
C11_VetoAbove20 ==
  \A r \in Reqs : AfterVerdict(r) =>
    LET files == cfg[req[r].bot].files
        score == Verdict(req[r].bot).riskScore
    IN
    /\ score = CountedScore(files)
    /\ Vetoed(r) <=> score > 20
    /\ (Len(files) = 1 /\ files[1].lines <= 10000 /\ files[1].content \subseteq MiningKeywords
         /\ Cardinality(files[1].content) = 2)
         => (score \in {10, 20} /\ ~Vetoed(r))
    /\ Cardinality(PatternHits(files)) >= 3 => Vetoed(r)
    /\ MatchesNothing(files) => (score = 0 /\ ~Vetoed(r))

\* a start that was not vetoed although a file has keywords of two mining patterns
C11_Witness ==
  \E r \in Reqs :
    /\ req[r].pc = "s_workspace"
    /\ HasTwoMiningKeywords(cfg[req[r].bot].files)
    /\ Verdict(req[r].bot).riskScore = 20

\* the sample exceeds the default memory limit (128 MB) or CPU limit (50%)
Breach(stats) == stats.memory > 128 * MiB \/ stats.cpu > 500

\* C12: in the step of a sampling tick that receives the sample: if the sample
\* breaches a limit the child is killed with SIGKILL, the handle removed, pid,
\* memory and CPU reset, status `error` written and a log record naming RADAR
\* and the breach stored; if it does not, none of these happens.
C12_SamplerBreach ==
  [][\A s \in Children :
       (sampler[s].st = "query" /\ sampler'[s].st \in {"killed", "getbot"}) =>
         LET b == sampler[s].bot
             c == sampler[s].proc
             stats == sampler'[s].stats
         IN  IF Breach(stats)
               THEN /\ sampler'[s].st = "killed"
                    /\ child'[c].st = "dead" /\ child'[c].sig = "SIGKILL"
                    /\ b \notin DOMAIN processes'
                    /\ bots'[b].status = "error" /\ IsReset(bots'[b])
                    /\ \E rec \in logs' :
                         /\ rec.botId = b
                         /\ Includes(rec.message, "RADAR: Resource abuse detected - ")
                         /\ \/ Includes(rec.message, "Memory usage exceeded limit: ")
                            \/ Includes(rec.message, "CPU usage exceeded limit: ")
               ELSE /\ sampler'[s].st = "getbot"
                    /\ UNCHANGED <<child, processes, bots, logs>>]_vars

\* a tick has killed one child for its CPU use while the tick of another child
\* has let a sample at the limits pass
C12_Witness ==
  /\ \E s \in Children : sampler[s].st = "killed" /\ sampler[s].stats = Busy
  /\ \E s \in Children : sampler[s].st = "getbot" /\ sampler[s].stats = AtLimit

\* every package-tool command run for the bot's manifest fails on this host
InstallerFails(bot) ==
  bot.language \in {"python", "nodejs"} /\ HasManifest(bot) /\ ~host.pip

\* C13: the step of startBot that follows a failed dependency installation
\* does not change the persisted status and goes on to spawn the child,
\* unless the runtime is unsupported or no main file exists; and a start whose
\* installation failed and whose child was spawned returns ok=true.
C13_InstallFailureNotFatal ==
  [][\A r \in Reqs :
       LET bot == cfg[req[r].bot] IN
       /\ ( /\ req[r].pc = "s_install" /\ req'[r].pc # "s_install"
            /\ InstallerFails(bot)
            /\ bot.language \in {"python", "nodejs"}
            /\ ResolveMain(bot) # "" )
          => (req'[r].pc = "s_spawn" /\ bots' = bots)
       /\ ( /\ req[r].pc = "s_monitor" /\ req'[r].pc = "done"
            /\ InstallerFails(bot) )
          => req'[r].res.success]_vars

\* a start whose installation failed has spawned its child and returned ok=true
C13_Witness ==
  \E r \in Reqs :
    /\ req[r].pc = "done" /\ req[r].op = "start" /\ req[r].res.success
    /\ InstallerFails(cfg[req[r].bot])
    /\ req[r].child # NoChild /\ child[req[r].child].st = "live"

C15_TokenFailureClearsHandle ==
  [][\A c \in Children :
       ( /\ child[c].pipe # <<>> /\ child'[c].pipe = <<>>
         /\ child[c].pipe[1].fd = "stderr"
         /\ IsTokenFailure(child[c].pipe[1].data) )
       => /\ bots'[child[c].bot].status = "error"
          /\ child[c].bot \notin DOMAIN processes'
          /\ \E rec \in logs' : /\ rec.botId = child[c].bot /\ rec.type = "error"
                                 /\ Includes(rec.message, "Improper token")]_vars

\* positions of a call inside a start attempt and inside a stop attempt
StartPcs == {"s_getBot", "s_validate", "s_files", "s_workspace", "s_install", "s_spawn",
             "s_monitor", "s_veto", "s_catch"}
StopPcs == {"t_wait", "t_notrunning", "t_resumed", "t_rm", "t_ret"}
\* status changes inside stopped -> starting -> (running | error); a start
\* made from any status may write `starting`
StartTransitions ==
  {<<old, "starting">> : old \in {"stopped", "running", "error"}}
  \cup {<<"starting", "running">>, <<"starting", "error">>,
        <<"stopped", "running">>, <<"stopped", "error">>}

\* the step in which the route serving request r pushes a message
Pushes(r) ==
  /\ req[r].pc = "done"
  /\ req'[r].pc = "idle"
  /\ Len(ws'.sent) = Len(ws.sent) + 1
Pushed == ws'.sent[Len(ws'.sent)]

\* C16: every bot_status_update pushed to the owner announces a status that
\* the operation being reported wrote to the bot's record before the push.
C16_PushAnnouncesWrittenStatus ==
  [][\A r \in Reqs :
       (Pushes(r) /\ Pushed.type = "bot_status_update")
         => \E p \in req[r].wrote : p[1] = Pushed.status]_vars

\* C17: for a subscriber that stays connected, the bot_status_update
\* messages are delivered in the order of the status writes they announce,
\* also when a start and a stop of the bot overlap (two messages with the
\* same status cannot be told apart and are not compared).
C17_PushesInWriteOrder ==
  \A i, j \in 1..Len(ws.stamps) :
    (/\ i < j
     /\ ws.stamps[i] # 0
     /\ ws.stamps[j] # 0
     /\ ws.sent[i].status # ws.sent[j].status) => ws.stamps[i] < ws.stamps[j]

\* nothing is left to do for any handler: no request is being served, no
\* child has unread output or an unprocessed exit
AtRest ==
  /\ ~TickPending
  /\ \A r \in Reqs : req[r].pc = "idle"
  /\ \A c \in Children : child[c].pipe = <<>> /\ child[c].st \notin {"dead", "exitwait"}
\* the log messages {level, message, source} the subscriber has been sent
LogsPushed == {ws.sent[i] : i \in {k \in 1..Len(ws.sent) : "level" \in DOMAIN ws.sent[k]}}

\* C18: every log record appended to the store while a subscriber is
\* registered is pushed to that subscriber, and a record is pushed only once
\* it is in the store.
C18_LogRecordsPushed ==
  ws.open =>
    /\ AtRest =>
         \A rec \in logs \ ws.had :
           \E m \in LogsPushed : m.level = rec.type /\ m.message = rec.message
    /\ \A m \in LogsPushed :
         \A b \in Bots :
           <<b, "bot">> \notin deleted =>
             \E rec \in logs : rec.type = m.level /\ rec.message = m.message

\* C19: delete(b) on a running bot stops it, then removes b's files, then
\* its log records, then the bot record; when it returns none of them remains
\* (and bot_deleted is broadcast).
C19_DeleteRunningBot ==
  \A r \in Reqs :
    (req[r].op = "delete" /\ req[r].child # NoChild) =>
      LET b == req[r].bot IN
      /\ <<b, "bot">> \in deleted => (~HasFiles(b) /\ ~HasLogs(b))
      /\ req[r].pc = "done" =>
           (req[r].res.success /\ <<b, "bot">> \in deleted /\ ~HasFiles(b) /\ ~HasLogs(b))

\* C20: while a start attempt on a bot is in progress every change of the
\* bot's persisted status is a step of stopped -> starting -> (running |
\* error); while a stop attempt is in progress every change is to `stopped`
\* (calls on the bot made one at a time).
C20_AttemptStatusSequence ==
  [][\A r \in Reqs, b \in Bots :
       bots'[b].status # bots[b].status =>
         /\ (req[r].pc \in StartPcs /\ req[r].bot = b)
              => <<bots[b].status, bots'[b].status>> \in StartTransitions
         /\ ( \/ (req[r].pc \in StopPcs /\ req[r].bot = b)
              \/ (req[r].pc = "idle" /\ req'[r].pc \in StopPcs /\ req'[r].bot = b) )
              => bots'[b].status = "stopped"]_vars

\* C21: after stop(b) has returned success the workspace directory of b is
\* absent, whether the child was running, had exited on its own, or the
\* preceding start failed after materialization (calls made one at a time).
C21_StopRemovesWorkspace ==
  \A r \in Reqs :
    (req[r].op = "stop" /\ req[r].pc = "done" /\ req[r].res.success)
      => req[r].bot \notin workspace

\* C22: for any interleaving of creation requests of one user, the number
\* of bots the user owns never exceeds MAX_BOTS_PER_USER.
C22_BotLimit == owned <= MAX_BOTS_PER_USER

\* some line of a python file of the probe holds marker m
Occurs(m) ==
  \E i \in 1..Len(probe.files) :
    /\ probe.files[i].ext = ".py"
    /\ \E j \in 1..Len(probe.files[i].lines) :
         m \in MarkersIn(cleanLine(probe.files[i].lines[j]))
HasPythonFile == \E i \in 1..Len(probe.files) : probe.files[i].ext = ".py"
NoRequirements == \A i \in 1..Len(probe.files) : probe.files[i].filename # "requirements.txt"
AllMarkers == UNION {pythonMarkers[row].markers : row \in 1..Len(pythonMarkers)}

RECURSIVE Substituted(_, _)
Substituted(phrases, token) ==
  IF phrases = <<>> THEN <<>>
  ELSE (IF Head(phrases) \in PlaceholderForms THEN <<DQ>> \o token \o <<DQ>>
                                              ELSE Head(phrases))
         \o Substituted(Tail(phrases), token)
\* a placeholder or an environment lookup occurs in the content
HoldsPlaceholder(content) ==
  \E i \in 1..Len(content) :
    \E pattern \in {placeholderPattern, processEnvPattern, osEnvironPattern, osGetenvPattern} :
      FirstAlternative(content, i, pattern) # 0

\* C24: materialization replaces every occurrence of the placeholder (bare,
\* single-quoted, double-quoted) and of the environment lookups by the
\* credential between one pair of double quotes, so that the written file
\* holds no placeholder; the stored BotFile content is unchanged.
C24_PlaceholderSubstitution ==
  (probe.fn = "createBotWorkspace" /\ result # NoResult) =>
    /\ result.written = Substituted(probe.phrases, probe.token)
    /\ ~HoldsPlaceholder(result.written)
    /\ result.stored = Flatten(probe.phrases)

\* the names of the bot's files
FileNames(bot) == {bot.files[i].filename.name : i \in 1..Len(bot.files)}
\* the first name of the preferred list, in list order, among the bot's files
FirstPreferred(bot) ==
  LET list == commonMainFiles(bot.language)
      present == {k \in 1..Len(list) : list[k] \in FileNames(bot)}
  IN  IF present = {} THEN ""
      ELSE list[CHOOSE k \in present : \A k2 \in present : k <= k2]

\* C25: the stored main file is used if it is set and exists in the
\* workspace; otherwise the first name of the language's preferred list, in
\* list order, that is among the bot's files; otherwise the first file with
\* the language's extension; otherwise the start fails.
C25_MainEntryResolution ==
  (probe.fn = "resolveMain" /\ result # NoResult) =>
    LET bot == probe.bot
        langFiles == LanguageFiles(bot.language, bot.files)
    IN  result.mainFile =
          IF bot.mainFile # "" /\ bot.mainFile \in FileNames(bot) THEN bot.mainFile
          ELSE IF FirstPreferred(bot) # "" THEN FirstPreferred(bot)
          ELSE IF langFiles # <<>> THEN langFiles[1].filename.name
          ELSE ""

\* C26: a sampler launched for a Process Handle cancels once that handle is
\* removed or its process is gone: it never samples, writes for or kills a
\* later child of the same bot, so at most one sampler per bot is at work.
C26_SamplerKeepsToItsChild ==
  /\ \A s \in Children : sampler[s].proc \in {NoChild, s}
  /\ \A s1, s2 \in Children :
       (/\ s1 # s2
        /\ sampler[s1].st \notin {"off", "idle"}
        /\ sampler[s2].st \notin {"off", "idle"}) => sampler[s1].bot # sampler[s2].bot

\* C27: the exit (or spawn-error) observer of a child touches only that
\* child's registration: if a newer child of the bot is registered when the
\* event is processed, the newer handle stays and the bot's status and pid
\* are not overwritten.
C27_ExitOfOlderChild ==
  [][\A c \in Children :
       (/\ child[c].st \in {"dead", "spawnerr"}
        /\ child'[c].st \in {"exitwait", "failed"}
        /\ child[c].bot \in DOMAIN processes
        /\ processes[child[c].bot] # c)
         => LET b == child[c].bot IN
            /\ b \in DOMAIN processes'
            /\ processes'[b] = processes[b]
            /\ bots'[b].status = bots[b].status
            /\ bots'[b].processId = bots[b].processId]_vars

\* C28: a sampler tick that was in flight when the bot was stopped, exited
\* or was killed writes nothing afterwards: whenever a bot has no Process
\* Handle and no start of it is in progress, its memory and CPU fields are
\* "0MB" and "0%".
C28_NoSampleAfterStop ==
  \A b \in Bots :
    (/\ b \notin DOMAIN processes
     /\ ~TickPending
     /\ \A r \in Reqs : ~(req[r].bot = b /\ req[r].pc \in StartPcs))
      => (bots[b].memoryUsage = "0MB" /\ bots[b].cpuUsage = "0%")

\* C29: after delete(b) has returned no child process is spawned or
\* registered for b and no persisted record of b is written again, even when
\* the delete was issued while a start(b) was in progress.
DeleteReturned(b) ==
  /\ <<b, "bot">> \in deleted
  /\ \A r \in Reqs : ~(req[r].op = "delete" /\ req[r].bot = b /\ req[r].pc # "idle")

C29_NothingAfterDelete ==
  [][\A b \in Bots :
       DeleteReturned(b) =>
         /\ \A c \in Children :
              (child[c].st = "unborn" /\ child'[c].st # "unborn") => child'[c].bot # b
         /\ b \in DOMAIN processes' => (b \in DOMAIN processes /\ processes'[b] = processes[b])
         /\ {rec \in logs' : rec.botId = b} \subseteq logs
         /\ bots'[b] = bots[b]]_vars

\* C30: closing a superseded connection does not unregister the user's newer
\* connection: whenever the connection a user opened most recently is still
\* open, it is the one registered for that user (the one broadcast sends on).
ConnectionsOf(u) == {i \in DOMAIN sockets : sockets[i].userId = u}
Newest(u) == CHOOSE i \in ConnectionsOf(u) : \A j \in ConnectionsOf(u) : j <= i

C30_NewestConnectionRegistered ==
  \A u \in Users :
    (ConnectionsOf(u) # {} /\ sockets[Newest(u)].readyState = "OPEN")
      => (u \in DOMAIN wsClients /\ wsClients[u] = Newest(u))

====
